---- MODULE Spec2Model ----
(***************************************************************************)
(* Hybrid retrieval pipeline of enterprise-rag: semantic cache, vector    *)
(* and BM25 fetch, reciprocal rank fusion, cross-encoder rerank.          *)
(*                                                                         *)
(* Texts (queries, chunk contents) are sequences of words.  Scores are    *)
(* fixed-point integers whose unit depends on the stage that wrote them   *)
(* (SearchResult.source): "bm25" in 1/1000, "hybrid" in 1/RRFDen,         *)
(* "reranked" in 1/(10*RRFDen) when the prior score was a fused one.      *)
(***************************************************************************)
EXTENDS Integers, Sequences, FiniteSets, TLC

VARIABLES
  store,                 \* redis keys "semantic_cache:*": query text -> entry
  ttl,                   \* the time-to-live each of these keys was stored with
  vector_table,          \* rows of the vector store's documents table
  deleted,               \* document ids for which delete_document returned "deleted"
  bm25_index,            \* BM25Store.bm25_index (None or the BM25Okapi object)
  documents,             \* BM25Store.documents
  doc_mapping,           \* BM25Store.doc_mapping: index -> document info
  redis_bm25_index,      \* redis key "bm25_index"
  redis_bm25_documents,  \* redis key "bm25_documents"
  build_status,          \* how the last build_index call on this BM25Store ended
  rebuilt,               \* that call was given the documents the store held already
  saving,                \* a build_index call suspended inside _save_to_redis
  loading,               \* a search suspended inside _load_from_redis
  pc,                    \* position of the retrieve call
  query, top_k, rerank_top_k, use_cache,   \* arguments of the retrieve call
  best_match_key,        \* best_match_key of a SemanticCache.get suspended before its last read
  cached_results,        \* what SemanticCache.get returned to retrieve
  vector_task, bm25_task,          \* the two awaitables handed to asyncio.gather
  vector_results, bm25_results,
  fused_results,
  reranked_results,
  scorer_calls,          \* the batches of pairs handed to the pairwise scorer in this call
  rerank_scores,         \* what the pairwise scorer answered
  ret,                   \* value returned by retrieve
  response,              \* what POST /query answered for this retrieve call
  log,                   \* calls made by the current retrieve call, in order
  calls                  \* number of retrieve calls started

vars == <<store, ttl, vector_table, deleted, scorer_calls, response, bm25_index, documents, doc_mapping, redis_bm25_index,
          redis_bm25_documents, build_status, rebuilt, saving, loading, pc, query, top_k, rerank_top_k, use_cache,
          best_match_key, cached_results, vector_task, bm25_task, vector_results,
          bm25_results, fused_results, reranked_results, rerank_scores, ret, log, calls>>

(***************************************************************************)
(* Bounds of the model                                                     *)
(***************************************************************************)
\* longest result list handed to fusion or to the reranker on its own
MaxLen == 3
\* longest list the vector store returns inside a modelled retrieve call
MaxVec == 2
\* retrieve calls per behaviour
MaxCalls == 2
\* documents per BM25 build
MaxDocs == 3

(***************************************************************************)
(* Program constants                                                       *)
(***************************************************************************)
\* HybridRetriever.alpha = 0.5 = AlphaNum / AlphaDen
AlphaNum == 1
AlphaDen == 2
\* _reciprocal_rank_fusion(k=60)
RRF_K == 60
\* combined_score = 0.7 * rerank + 0.3 * prior, in tenths
RerankWeight == 7
PriorWeight == 3
\* SemanticCache.threshold = 0.95 = ThresholdNum / ThresholdDen
ThresholdNum == 19
ThresholdDen == 20
\* SemanticCache.ttl, seconds
CacheTTL == 3600

(***************************************************************************)
(* Generic helpers                                                         *)
(***************************************************************************)
Range(s) == {s[i] : i \in 1..Len(s)}

SeqsUpTo(S, n) == UNION {[1..m -> S] : m \in 0..n}

\* sequences without repeated elements
DistinctSeqsUpTo(S, n) ==
  {s \in SeqsUpTo(S, n) : \A i, j \in 1..Len(s) : i # j => s[i] # s[j]}

Min(a, b) == IF a <= b THEN a ELSE b

RECURSIVE GCD(_, _)
GCD(a, b) == IF b = 0 THEN a ELSE GCD(b, a % b)

RECURSIVE LCMRange(_, _)
\* least common multiple of lo..hi
LCMRange(lo, hi) ==
  IF lo > hi THEN 1
  ELSE LET rest == LCMRange(lo + 1, hi) IN (lo * rest) \div GCD(lo, rest)

\* sum of the values of a function with a finite domain
RECURSIVE SumFn(_)
SumFn(f) ==
  IF DOMAIN f = {} THEN 0
  ELSE LET x == CHOOSE x \in DOMAIN f : TRUE
       IN f[x] + SumFn([y \in DOMAIN f \ {x} |-> f[y]])

RECURSIVE SumSeq(_)
SumSeq(s) == IF s = <<>> THEN 0 ELSE s[1] + SumSeq(Tail(s))

(***************************************************************************)
(* SearchResult                                                            *)
(***************************************************************************)
SearchResult(content, metadata, score, source) ==
  [content |-> content, metadata |-> metadata, score |-> score, source |-> source]

\* dict.get(key, '')
MetaGet(metadata, key) == IF key \in DOMAIN metadata THEN metadata[key] ELSE ""

\* identity by content instead of by the metadata ids
get_doc_id_by_content(result) == result.content[1]

\* HybridRetriever._get_doc_id
get_doc_id(result) ==
  MetaGet(result.metadata, "document_id") \o "_" \o MetaGet(result.metadata, "chunk_id")

(***************************************************************************)
(* Reciprocal rank fusion                                                  *)
(***************************************************************************)
\* common denominator of every alpha/(k+rank), rank in 1..MaxLen
RRFDen == AlphaDen * LCMRange(RRF_K + 1, RRF_K + MaxLen)

\* self.alpha / (k + rank)
VectorContribution(rank) == (AlphaNum * RRFDen) \div (AlphaDen * (RRF_K + rank))

\* (1 - self.alpha) / (k + rank)
BM25Contribution(rank) ==
  ((AlphaDen - AlphaNum) * RRFDen) \div (AlphaDen * (RRF_K + rank))

\* a Python dict pair doc_map/doc_scores: keys in insertion order
EmptyDicts == [keys |-> <<>>, doc_map |-> <<>>, doc_scores |-> <<>>]

DictSet(f, key, value) == [x \in (DOMAIN f) \cup {key} |-> IF x = key THEN value ELSE f[x]]

KeysAdd(keys, key) == IF key \in Range(keys) THEN keys ELSE Append(keys, key)

\* one iteration of the loop over vector_results
VectorStep(d, result, rank) ==
  LET doc_id == get_doc_id(result) IN
  [keys |-> KeysAdd(d.keys, doc_id),
   doc_map |-> DictSet(d.doc_map, doc_id, result),
   doc_scores |-> DictSet(d.doc_scores, doc_id, VectorContribution(rank))]

\* one iteration of the loop over bm25_results
BM25Step(d, result, rank) ==
  LET doc_id == get_doc_id(result) IN
  [keys |-> KeysAdd(d.keys, doc_id),
   doc_map |-> IF doc_id \in DOMAIN d.doc_map THEN d.doc_map
               ELSE DictSet(d.doc_map, doc_id, result),
   doc_scores |-> DictSet(d.doc_scores, doc_id,
                    (IF doc_id \in DOMAIN d.doc_scores THEN d.doc_scores[doc_id] ELSE 0)
                      + BM25Contribution(rank))]

RECURSIVE VectorLoop(_, _, _)
VectorLoop(d, results, rank) ==
  IF rank > Len(results) THEN d
  ELSE VectorLoop(VectorStep(d, results[rank], rank), results, rank + 1)

RECURSIVE BM25Loop(_, _, _)
BM25Loop(d, results, rank) ==
  IF rank > Len(results) THEN d
  ELSE BM25Loop(BM25Step(d, results[rank], rank), results, rank + 1)

RECURSIVE InsertDesc(_, _, _)
\* x placed after every element whose score is >= its own
InsertDesc(sorted, x, scores) ==
  IF sorted = <<>> THEN <<x>>
  ELSE IF scores[Head(sorted)] >= scores[x]
       THEN <<Head(sorted)>> \o InsertDesc(Tail(sorted), x, scores)
       ELSE <<x>> \o sorted

RECURSIVE SortedDescFrom(_, _, _)
SortedDescFrom(acc, s, scores) ==
  IF s = <<>> THEN acc
  ELSE SortedDescFrom(InsertDesc(acc, Head(s), scores), Tail(s), scores)

\* sorted(s, key=lambda x: scores[x], reverse=True): stable, equal scores keep
\* their order
SortedDesc(s, scores) == SortedDescFrom(<<>>, s, scores)

\* the fused keys left in insertion order
sorted_docs_unsorted(d) == d.keys

\* sorted(doc_scores.items(), key=lambda x: x[1], reverse=True)
sorted_docs(d) == SortedDesc(d.keys, d.doc_scores)

\* HybridRetriever._reciprocal_rank_fusion
reciprocal_rank_fusion(vres, bres) ==
  LET d == BM25Loop(VectorLoop(EmptyDicts, vres, 1), bres, 1)
      order == sorted_docs(d)
  IN [i \in 1..Len(order) |->
        [d.doc_map[order[i]] EXCEPT !.score = d.doc_scores[order[i]],
                                    !.source = "hybrid"]]

(***************************************************************************)
(* Reranker                                                                *)
(***************************************************************************)
\* the weights exchanged
combined_score_swapped(rerank_score, prior) ==
  PriorWeight * rerank_score + RerankWeight * prior

\* 0.7 * float(rerank_score) + 0.3 * doc.score, in tenths of the inputs' unit
combined_score(rerank_score, prior) ==
  RerankWeight * rerank_score + PriorWeight * prior

\* s[:k]
Slice(s, k) ==
  IF k >= 0 THEN SubSeq(s, 1, Min(k, Len(s)))
  ELSE SubSeq(s, 1, IF Len(s) + k > 0 THEN Len(s) + k ELSE 0)

\* the scorer is asked about nothing
no_documents_never(docs) == FALSE

\* if not documents
no_documents(docs) == docs = <<>>

\* the pairs with the content in front of the query
pairs_swapped(q, docs) == [i \in 1..Len(docs) |-> <<docs[i].content, q>>]

\* pairs = [(query, doc.content) for doc in documents]
pairs(q, docs) == [i \in 1..Len(docs) |-> <<q, docs[i].content>>]

\* Reranker.rerank once the scorer has answered with scores, one per pair
rerank(docs, scores, k) ==
  IF no_documents(docs) THEN <<>>
  ELSE LET n == Min(Len(docs), Len(scores))
           reranked_docs == [i \in 1..n |->
              [docs[i] EXCEPT !.score = combined_score(scores[i], docs[i].score),
                              !.source = "reranked"]]
           by_score == [i \in 1..n |-> reranked_docs[i].score]
           order == SortedDesc([i \in 1..n |-> i], by_score)
       IN Slice([i \in 1..n |-> reranked_docs[order[i]]], k)

(***************************************************************************)
(* BM25Store                                                               *)
(***************************************************************************)
\* None
None == <<>>

\* str.lower() on one word
Lower(w) == IF w = "Cat" THEN "cat" ELSE IF w = "Dog" THEN "dog" ELSE w

\* word_tokenize(text.lower())
Tokenize(text) == [i \in 1..Len(text) |-> Lower(text[i])]

\* BM25Okapi defaults k1 = 1.5 = K1Num/K1Den, b = 0.75 = BNum/BDen,
\* epsilon = 0.25 = 1/EpsilonDen
K1Num == 3
K1Den == 2
BNum == 3
BDen == 4
EpsilonDen == 4

\* 1000 * ln(n) for the odd n that 2*(N - df) + 1 and 2*df + 1 take
LnMilli(n) ==
  CASE n = 1 -> 0 [] n = 3 -> 1099 [] n = 5 -> 1609 [] n = 7 -> 1946
    [] n = 9 -> 2197 [] n = 11 -> 2398 [] n = 13 -> 2565 [] n = 15 -> 2708
    [] n = 17 -> 2833 [] n = 19 -> 2944 [] n = 21 -> 3045 [] n = 23 -> 3135
    [] n = 25 -> 3219 [] n = 27 -> 3296 [] n = 29 -> 3367 [] n = 31 -> 3434

\* frequencies of the words of one tokenized document
Frequencies(tokens) ==
  [w \in Range(tokens) |-> Cardinality({i \in 1..Len(tokens) : tokens[i] = w})]

\* math.log(corpus_size - freq + 0.5) - math.log(freq + 0.5), times 1000
RawIdf(corpus_size, freq) ==
  LnMilli(2 * (corpus_size - freq) + 1) - LnMilli(2 * freq + 1)

\* BM25Okapi(corpus) raises ZeroDivisionError: num_doc / corpus_size in
\* _initialize for no documents, idf_sum / len(idf) in _calc_idf for no words
okapi_raises(corpus) ==
  Len(corpus) = 0 \/ \A i \in 1..Len(corpus) : corpus[i] = <<>>

\* BM25Okapi(corpus): _initialize and _calc_idf
BM25Okapi(corpus) ==
  LET corpus_size == Len(corpus)
      doc_freqs == [i \in 1..corpus_size |-> Frequencies(corpus[i])]
      doc_len == [i \in 1..corpus_size |-> Len(corpus[i])]
      words == UNION {Range(corpus[i]) : i \in 1..corpus_size}
      nd == [w \in words |-> Cardinality({i \in 1..corpus_size : w \in DOMAIN doc_freqs[i]})]
      raw == [w \in words |-> RawIdf(corpus_size, nd[w])]
      idf_sum == SumFn(raw)
      eps == idf_sum \div (EpsilonDen * Cardinality(words))
  IN [corpus |-> corpus,
      corpus_size |-> corpus_size,
      total_len |-> SumSeq(doc_len),
      doc_freqs |-> doc_freqs,
      doc_len |-> doc_len,
      idf |-> [w \in words |-> IF raw[w] < 0 THEN eps ELSE raw[w]]]

\* idf * f * (k1 + 1) / (f + k1 * (1 - b + b * dl / avgdl)), times 1000, with
\* avgdl = total_len / corpus_size
term_score(idf, f, dl, total_len, corpus_size) ==
  LET num == f * (K1Num + K1Den) * BDen * total_len
      den == f * K1Den * BDen * total_len
             + K1Num * ((BDen - BNum) * total_len + BNum * dl * corpus_size)
  IN (idf * num) \div den

\* one query word's term of BM25Okapi.get_scores for document i
TermScore(index, q, i) ==
  term_score(IF q \in DOMAIN index.idf THEN index.idf[q] ELSE 0,
             IF q \in DOMAIN index.doc_freqs[i] THEN index.doc_freqs[i][q] ELSE 0,
             index.doc_len[i], index.total_len, index.corpus_size)

\* BM25Okapi.get_scores: one score per document, document indices from 0
get_scores(index, query_tokens) ==
  [idx \in 0..(index.corpus_size - 1) |->
     SumSeq([j \in 1..Len(query_tokens) |-> TermScore(index, query_tokens[j], idx + 1)])]

\* sorted(range(len(scores)), key=lambda i: scores[i], reverse=True)[:top_k]
top_indices(scores, k) ==
  Slice(SortedDesc([i \in 1..Cardinality(DOMAIN scores) |-> i - 1], scores), k)

\* every score passes
relevant_any(score) == TRUE

\* if scores[idx] > 0
relevant(score) == score > 0

\* the indices that BM25Store.search turns into results
result_indices(scores, k) ==
  LET top == top_indices(scores, k)
  IN SelectSeq(top, LAMBDA idx : relevant(scores[idx]))

\* BM25Store.search once an index is in memory: raised is the KeyError of
\* self.doc_mapping[idx]
search_index(index, mapping, q, k) ==
  LET scores == get_scores(index, Tokenize(q))
      hits == result_indices(scores, k)
  IN IF \E i \in 1..Len(hits) : hits[i] \notin DOMAIN mapping
     THEN [raised |-> TRUE, results |-> <<>>, indices |-> <<>>]
     ELSE [raised |-> FALSE,
           results |-> [i \in 1..Len(hits) |->
                          SearchResult(mapping[hits[i]].content, mapping[hits[i]].metadata,
                                       scores[hits[i]], "bm25")],
           indices |-> hits]

\* a redis key: <<>> when absent, <<value>> when set
Absent == <<>>

\* the dict _save_to_redis pickles under "bm25_index"
bm25_data(index) ==
  [corpus |-> index.corpus, idf |-> index.idf,
   doc_len |-> index.doc_len, doc_freqs |-> index.doc_freqs]

\* the restore that sets the pickled statistics on an index of no documents
restored_index_no_corpus(bm25_dict) ==
  [BM25Okapi(<<>>) EXCEPT !.idf = bm25_dict.idf,
                          !.doc_len = bm25_dict.doc_len,
                          !.doc_freqs = bm25_dict.doc_freqs]

\* the BM25Okapi object _load_from_redis rebuilds from the pickled dict
restored_index(bm25_dict) ==
  [BM25Okapi(bm25_dict.corpus) EXCEPT !.idf = bm25_dict.idf,
                                      !.doc_len = bm25_dict.doc_len,
                                      !.doc_freqs = bm25_dict.doc_freqs]

\* the load that restores the document mapping and forgets the index
load_from_redis_mapping_only(index, mapping, r_index, r_documents) ==
  [bm25_index |-> index,
   doc_mapping |-> IF r_documents # Absent THEN r_documents[1] ELSE mapping]

\* the in-memory state _load_from_redis leaves, from the two redis keys
load_from_redis(index, mapping, r_index, r_documents) ==
  [bm25_index |-> IF r_index # Absent THEN restored_index(r_index[1]) ELSE index,
   doc_mapping |-> IF r_documents # Absent THEN r_documents[1] ELSE mapping]

\* self.doc_mapping after the loop of build_index over docs
build_doc_mapping(mapping, docs) ==
  [i \in (DOMAIN mapping) \cup (0..(Len(docs) - 1)) |->
     IF i < Len(docs)
     THEN [content |-> docs[i + 1].content,
           metadata |-> docs[i + 1].metadata,
           document_id |-> docs[i + 1].document_id,
           chunk_id |-> docs[i + 1].chunk_id]
     ELSE mapping[i]]

(***************************************************************************)
(* SemanticCache                                                           *)
(***************************************************************************)
Dot(a, b) == SumSeq([i \in 1..Len(a) |-> a[i] * b[i]])

NormSq(a) == Dot(a, a)

\* np.dot(q, c) / (norm(q) * norm(c)) kept exact: dot / sqrt(nq * nc)
Similarity(query_embedding, cached_embedding) ==
  [dot |-> Dot(query_embedding, cached_embedding),
   nq |-> NormSq(query_embedding),
   nc |-> NormSq(cached_embedding)]

\* max_similarity = 0.0
ZeroSimilarity == [dot |-> 0, nq |-> 1, nc |-> 1]

\* s > t for two similarities to the same query embedding (or t = 0.0)
SimGreater(s, t) ==
  IF s.dot > 0 /\ t.dot <= 0 THEN TRUE
  ELSE IF s.dot <= 0 /\ t.dot >= 0 THEN FALSE
  ELSE IF s.dot > 0 THEN s.dot * s.dot * t.nc > t.dot * t.dot * s.nc
  ELSE s.dot * s.dot * t.nc < t.dot * t.dot * s.nc

\* the gate written with > instead of >=
AtLeastThreshold_strict(s) ==
  s.dot > 0 /\ ThresholdDen * ThresholdDen * s.dot * s.dot
                 > ThresholdNum * ThresholdNum * s.nq * s.nc

\* max_similarity >= self.threshold
AtLeastThreshold(s) ==
  s.dot > 0 /\ ThresholdDen * ThresholdDen * s.dot * s.dot
                 >= ThresholdNum * ThresholdNum * s.nq * s.nc

\* the dicts json.dumps writes for the results
serialize(results) ==
  [i \in 1..Len(results) |->
     [content |-> results[i].content, metadata |-> results[i].metadata,
      score |-> results[i].score, source |-> results[i].source]]

\* [SearchResult(**result_dict) for result_dict in data["results"]]
deserialize(dicts) ==
  [i \in 1..Len(dicts) |->
     SearchResult(dicts[i].content, dicts[i].metadata, dicts[i].score, dicts[i].source)]

\* cache_data of SemanticCache.set
cache_data(q, embedding, results) ==
  [query |-> q, embedding |-> embedding, results |-> serialize(results)]

\* one iteration of the for loop of SemanticCache.get; best_match_key is
\* <<>> for None
scan_step(best, key, data, query_embedding) ==
  LET similarity == Similarity(query_embedding, data.embedding)
  IN IF SimGreater(similarity, best.max_similarity)
     THEN [max_similarity |-> similarity, best_match_key |-> <<key>>]
     ELSE best

RECURSIVE scan(_, _, _, _, _)
scan(best, cache_keys, i, redis, query_embedding) ==
  IF i > Len(cache_keys) THEN best
  ELSE scan(scan_step(best, cache_keys[i], redis[cache_keys[i]], query_embedding),
            cache_keys, i + 1, redis, query_embedding)

\* SemanticCache.get over the keys in the order redis.keys listed them;
\* found = FALSE is the None it returns on a miss
cache_get(redis, cache_keys, query_embedding) ==
  IF cache_keys = <<>> THEN [found |-> FALSE, results |-> <<>>, key |-> <<>>]
  ELSE LET best == scan([max_similarity |-> ZeroSimilarity, best_match_key |-> <<>>],
                        cache_keys, 1, redis, query_embedding)
       IN IF AtLeastThreshold(best.max_similarity) /\ best.best_match_key # <<>>
          THEN [found |-> TRUE,
                results |-> deserialize(redis[best.best_match_key[1]].results),
                key |-> best.best_match_key]
          ELSE [found |-> FALSE, results |-> <<>>, key |-> <<>>]

\* json.loads(cached_data) or data["embedding"] raises inside the scan
unreadable(data) == "embedding" \notin DOMAIN data

\* SemanticCache.get raises: on an unreadable record anywhere in the scan, or
\* on data["results"] of the best match
get_raises(redis, cache_keys, query_embedding) ==
  \/ \E i \in 1..Len(cache_keys) : unreadable(redis[cache_keys[i]])
  \/ LET best == scan([max_similarity |-> ZeroSimilarity, best_match_key |-> <<>>],
                      cache_keys, 1, redis, query_embedding)
     IN /\ AtLeastThreshold(best.max_similarity) /\ best.best_match_key # <<>>
        /\ "results" \notin DOMAIN redis[best.best_match_key[1]]

\* "if cached_results:" a hit counts only when its list is not empty
truthy(r) == r.found /\ r.results # <<>>

(***************************************************************************)
(* Data the model draws from                                               *)
(***************************************************************************)
\* metadata dicts: with the ids _get_doc_id reads, and without them
MetaA == [document_id |-> "A", chunk_id |-> "0"]
MetaB == [document_id |-> "B", chunk_id |-> "0"]
MetaC == [document_id |-> "C", chunk_id |-> "0"]
MetaPlain == [source |-> "a.txt"]

Chunk(content, metadata, document_id, chunk_id) ==
  [content |-> content, metadata |-> metadata,
   document_id |-> document_id, chunk_id |-> chunk_id]

\* chunks as DocumentIndexer hands them to the stores
Chunk1 == Chunk(<<"Cat">>, MetaA, "A", "A_0")
Chunk2 == Chunk(<<"dog">>, MetaB, "B", "B_0")
Chunk3 == Chunk(<<"emu", "emu">>, MetaPlain, "E", "E_0")
Chunk4 == Chunk(<<"cat", "Dog">>, MetaPlain, "E", "E_1")
Chunks == {Chunk1, Chunk2, Chunk3, Chunk4}

\* document lists given to build_index
BuildInputs == DistinctSeqsUpTo(Chunks, MaxDocs)

\* query texts and what the embedding provider answers for each
Query1 == <<"cat">>
Query2 == <<"Cat", "dog">>
Query3 == <<"emu">>
Query4 == <<"dog">>
Queries == {Query1, Query2, Query3}

\* get_embedding(text): cos(Query1, Query2) = 19/20, cos(Query1, Query3) =
\* 3/sqrt(10) < 19/20, cos(Query2, Query3) = 62/(20*sqrt(10)) > 19/20,
\* Query4 has Query1's embedding
get_embedding(text) ==
  CASE text = Query1 -> <<1, 0, 0, 0, 0>>
    [] text = Query2 -> <<19, 5, 3, 2, 1>>
    [] text = Query3 -> <<3, 1, 0, 0, 0>>
    [] text = Query4 -> <<1, 0, 0, 0, 0>>

\* the key derived from the query's embedding
cache_key_by_embedding(q) == <<"semantic_cache:", get_embedding(q)>>

\* f"{self.cache_prefix}{md5(query)}"
cache_key(q) == <<"semantic_cache:", q>>

\* rows the vector store can return (score: cosine similarity in 1/100)
VectorRows ==
  {SearchResult(Chunk1.content, Chunk1.metadata, 90, "vector"),
   SearchResult(Chunk4.content, Chunk4.metadata, 80, "vector")}

\* what VectorStore.search may return inside a retrieve call
VectorAnswers(k) == DistinctSeqsUpTo(VectorRows, Min(k, MaxVec))

\* raw relevance scores of the pairwise scorer, in 1/RRFDen
RawScores == {0 - RRFDen, 0, RRFDen}

\* orders in which redis.keys may list the keys of a store
KeyOrders(redis) == DistinctSeqsUpTo(DOMAIN redis, Cardinality(DOMAIN redis))
                      \ DistinctSeqsUpTo(DOMAIN redis, Cardinality(DOMAIN redis) - 1)

(***************************************************************************)
(* HybridRetriever.retrieve                                                *)
(***************************************************************************)
\* no response sent yet
NoResponse == [status |-> 0, detail |-> ""]

NoCached == [found |-> FALSE, results |-> <<>>, key |-> <<>>]

\* "if use_cache:" taken whatever the flag
use_cache_always(uc) == TRUE

\* "if use_cache:"
use_cache_branch(uc) == uc

\* a failed task counted as finished
gather_outcome_partial(vt, bt) ==
  IF vt \in {"done", "failed"} /\ bt \in {"done", "failed"} THEN "return" ELSE "wait"

\* the join made as soon as the vector search is done
gather_outcome_vector_only(vt, bt) ==
  IF vt = "failed" \/ bt = "failed" THEN "raise"
  ELSE IF vt = "done" THEN "return"
  ELSE "wait"

\* asyncio.gather(vector_task, bm25_task): raises with the first failure,
\* returns when both are done
gather_outcome(vt, bt) ==
  IF vt = "failed" \/ bt = "failed" THEN "raise"
  ELSE IF vt = "done" /\ bt = "done" THEN "return"
  ELSE "wait"

\* no build_index call is inside _save_to_redis
NoSave == [stage |-> "none", data |-> Absent, mapping |-> <<>>]

CallIdle == pc \in {"idle", "returned", "raised"}
            /\ vector_task # "running" /\ bm25_task # "running"

IndexUnchanged == UNCHANGED <<bm25_index, documents, doc_mapping,
                              redis_bm25_index, redis_bm25_documents,
                              build_status, rebuilt, saving, loading,
                              best_match_key>>

\* lines 63-68: both coroutines created and handed to gather
StartFetch(lg) ==
  /\ pc' = "gather"
  /\ vector_task' = "running"
  /\ bm25_task' = "running"
  /\ log' = lg \o <<"vector_search", "bm25_search">>

\* retrieve(query, top_k, rerank_top_k, use_cache) is called
Retrieve(q, tk, rtk, uc) ==
  /\ CallIdle
  /\ calls < MaxCalls
  /\ calls' = calls + 1
  /\ query' = q /\ top_k' = tk /\ rerank_top_k' = rtk /\ use_cache' = uc
  /\ cached_results' = NoCached
  /\ vector_results' = <<>> /\ bm25_results' = <<>> /\ fused_results' = <<>>
  /\ reranked_results' = <<>> /\ rerank_scores' = <<>> /\ ret' = <<>>
  /\ scorer_calls' = <<>>
  /\ response' = NoResponse
  /\ IF use_cache_branch(uc)
     THEN /\ pc' = "cache_check" /\ log' = <<>>
          /\ vector_task' = "none" /\ bm25_task' = "none"
     ELSE StartFetch(<<>>)
  /\ UNCHANGED <<store, ttl, vector_table, deleted>>
  /\ IndexUnchanged

\* cache.get answers; retrieve returns on a hit, starts the fetch otherwise
CacheGet ==
  /\ pc = "cache_check"
  /\ \E cache_keys \in KeyOrders(store) :
       IF get_raises(store, cache_keys, get_embedding(query))
       THEN /\ pc' = "raised"
            /\ log' = Append(log, "cache_get")
            /\ UNCHANGED <<cached_results, ret, vector_task, bm25_task>>
       ELSE LET r == cache_get(store, cache_keys, get_embedding(query))
            IN /\ cached_results' = r
               /\ IF truthy(r)
                  THEN /\ pc' = "returned" /\ ret' = r.results
                       /\ log' = Append(log, "cache_get")
                       /\ UNCHANGED <<vector_task, bm25_task>>
                  ELSE /\ StartFetch(Append(log, "cache_get"))
                       /\ UNCHANGED ret
  /\ UNCHANGED <<store, ttl, vector_table, deleted, scorer_calls, response, query, top_k, rerank_top_k, use_cache, vector_results,
                 bm25_results, fused_results, reranked_results, rerank_scores, calls>>
  /\ IndexUnchanged

\* get_embedding or redis raises inside cache.get
CacheGetRaises ==
  /\ pc = "cache_check"
  /\ pc' = "raised"
  /\ log' = Append(log, "cache_get")
  /\ UNCHANGED <<store, ttl, vector_table, deleted, scorer_calls, response, query, top_k, rerank_top_k, use_cache, cached_results,
                 vector_task, bm25_task, vector_results, bm25_results, fused_results,
                 reranked_results, rerank_scores, ret, calls>>
  /\ IndexUnchanged

\* VectorStore.search returns its rows
VectorSearchReturns(rows) ==
  /\ vector_task = "running"
  /\ vector_task' = "done"
  /\ vector_results' = rows
  /\ log' = Append(log, "vector_done")
  /\ UNCHANGED <<store, ttl, vector_table, deleted, scorer_calls, response, pc, query, top_k, rerank_top_k, use_cache, cached_results,
                 bm25_task, bm25_results, fused_results, reranked_results,
                 rerank_scores, ret, calls>>
  /\ IndexUnchanged

\* VectorStore.search raises (connection or query failure)
VectorSearchRaises ==
  /\ vector_task = "running"
  /\ vector_task' = "failed"
  /\ log' = Append(log, "vector_raise")
  /\ UNCHANGED <<store, ttl, vector_table, deleted, scorer_calls, response, pc, query, top_k, rerank_top_k, use_cache, cached_results,
                 bm25_task, vector_results, bm25_results, fused_results,
                 reranked_results, rerank_scores, ret, calls>>
  /\ IndexUnchanged

\* BM25Store.search(q, k) on the current store: lazy load when no index is in
\* memory, then the search; bm25_task' tells whether it returned or raised
SearchEffect(q, k) ==
  LET loaded == IF bm25_index = None
                THEN load_from_redis(bm25_index, doc_mapping,
                                     redis_bm25_index, redis_bm25_documents)
                ELSE [bm25_index |-> bm25_index, doc_mapping |-> doc_mapping]
  IN /\ bm25_index' = loaded.bm25_index
     /\ doc_mapping' = loaded.doc_mapping
     /\ UNCHANGED <<documents, redis_bm25_index, redis_bm25_documents,
                     build_status, rebuilt, saving, loading>>
     /\ IF loaded.bm25_index = None
        THEN bm25_results' = <<>> /\ bm25_task' = "done"
        ELSE LET r == search_index(loaded.bm25_index, loaded.doc_mapping, q, k)
             IN IF r.raised
                THEN bm25_results' = <<>> /\ bm25_task' = "failed"
                ELSE bm25_results' = r.results /\ bm25_task' = "done"

\* the BM25 task of a retrieve call completes
BM25SearchCompletes ==
  /\ bm25_task = "running"
  /\ SearchEffect(query, top_k)
  /\ log' = Append(log, IF bm25_task' = "failed" THEN "bm25_raise" ELSE "bm25_done")
  /\ UNCHANGED <<store, ttl, vector_table, deleted, scorer_calls, response, pc, query, top_k, rerank_top_k, use_cache, cached_results,
                 best_match_key, vector_task, vector_results, fused_results,
                 reranked_results, rerank_scores, ret, calls>>

\* the await on gather raises
GatherRaises ==
  /\ pc = "gather"
  /\ gather_outcome(vector_task, bm25_task) = "raise"
  /\ pc' = "raised"
  /\ UNCHANGED <<store, ttl, vector_table, deleted, scorer_calls, response, query, top_k, rerank_top_k, use_cache, cached_results,
                 vector_task, bm25_task, vector_results, bm25_results, fused_results,
                 reranked_results, rerank_scores, ret, log, calls>>
  /\ IndexUnchanged

\* the await on gather returns both lists
GatherReturns ==
  /\ pc = "gather"
  /\ gather_outcome(vector_task, bm25_task) = "return"
  /\ pc' = "fuse"
  /\ UNCHANGED <<store, ttl, vector_table, deleted, scorer_calls, response, query, top_k, rerank_top_k, use_cache, cached_results,
                 vector_task, bm25_task, vector_results, bm25_results, fused_results,
                 reranked_results, rerank_scores, ret, log, calls>>
  /\ IndexUnchanged

\* self._reciprocal_rank_fusion(vector_results, bm25_results)
Fuse ==
  /\ pc = "fuse"
  /\ fused_results' = reciprocal_rank_fusion(vector_results, bm25_results)
  /\ log' = Append(log, "fuse")
  /\ pc' = "rerank"
  /\ UNCHANGED <<store, ttl, vector_table, deleted, scorer_calls, response, query, top_k, rerank_top_k, use_cache, cached_results,
                 vector_task, bm25_task, vector_results, bm25_results,
                 reranked_results, rerank_scores, ret, calls>>
  /\ IndexUnchanged

\* retrieve after rerank has returned results: cache write or return
AfterRerank(results, lg) ==
  /\ reranked_results' = results
  /\ log' = lg
  /\ IF use_cache_branch(use_cache)
     THEN pc' = "cache_write" /\ UNCHANGED ret
     ELSE pc' = "returned" /\ ret' = results

\* reranker.rerank is called: returns [] at once for no documents, otherwise
\* hands the pairs to the scorer in the executor
RerankDispatch ==
  /\ pc = "rerank"
  /\ IF no_documents(fused_results)
     THEN /\ AfterRerank(<<>>, log \o <<"rerank", "rerank_done">>)
          /\ UNCHANGED scorer_calls
     ELSE /\ pc' = "scoring"
          /\ log' = log \o <<"rerank", "score_pairs">>
          /\ scorer_calls' = Append(scorer_calls, pairs(query, fused_results))
          /\ UNCHANGED <<reranked_results, ret>>
  /\ UNCHANGED <<store, ttl, vector_table, deleted, response, query, top_k, rerank_top_k, use_cache, cached_results,
                 vector_task, bm25_task, vector_results, bm25_results, fused_results,
                 rerank_scores, calls>>
  /\ IndexUnchanged

\* the scorer answers and rerank returns
RerankComplete(scores) ==
  /\ pc = "scoring"
  /\ Len(scores) = Len(fused_results)
  /\ rerank_scores' = scores
  /\ AfterRerank(rerank(fused_results, scores, rerank_top_k), Append(log, "rerank_done"))
  /\ UNCHANGED <<store, ttl, vector_table, deleted, scorer_calls, response, query, top_k, rerank_top_k, use_cache, cached_results,
                 vector_task, bm25_task, vector_results, bm25_results, fused_results,
                 calls>>
  /\ IndexUnchanged

\* the scorer raises
RerankRaises ==
  /\ pc = "scoring"
  /\ pc' = "raised"
  /\ UNCHANGED <<store, ttl, vector_table, deleted, scorer_calls, response, query, top_k, rerank_top_k, use_cache, cached_results,
                 vector_task, bm25_task, vector_results, bm25_results, fused_results,
                 reranked_results, rerank_scores, ret, log, calls>>
  /\ IndexUnchanged

\* cache.set stores the entry; retrieve returns the reranked results
CacheSet ==
  /\ pc = "cache_write"
  /\ store' = DictSet(store, cache_key(query),
                      cache_data(query, get_embedding(query), reranked_results))
  /\ ttl' = DictSet(ttl, cache_key(query), CacheTTL)
  /\ UNCHANGED <<vector_table, deleted, scorer_calls, response>>
  /\ log' = Append(log, "cache_set")
  /\ pc' = "returned"
  /\ ret' = reranked_results
  /\ UNCHANGED <<query, top_k, rerank_top_k, use_cache, cached_results,
                 vector_task, bm25_task, vector_results, bm25_results, fused_results,
                 reranked_results, rerank_scores, calls>>
  /\ IndexUnchanged

\* get_embedding or redis raises inside cache.set
CacheSetRaises ==
  /\ pc = "cache_write"
  /\ log' = Append(log, "cache_set")
  /\ pc' = "raised"
  /\ UNCHANGED <<store, ttl, vector_table, deleted, scorer_calls, response, query, top_k, rerank_top_k, use_cache, cached_results,
                 vector_task, bm25_task, vector_results, bm25_results, fused_results,
                 reranked_results, rerank_scores, ret, calls>>
  /\ IndexUnchanged

\* an entry reaches the end of its time-to-live
Expire(key) ==
  /\ key \in DOMAIN store
  /\ store' = [x \in (DOMAIN store) \ {key} |-> store[x]]
  /\ ttl' = [x \in (DOMAIN ttl) \ {key} |-> ttl[x]]
  /\ UNCHANGED <<vector_table, deleted, scorer_calls, response>>
  /\ UNCHANGED <<pc, query, top_k, rerank_top_k, use_cache, cached_results,
                 vector_task, bm25_task, vector_results, bm25_results, fused_results,
                 reranked_results, rerank_scores, ret, log, calls>>
  /\ IndexUnchanged

(***************************************************************************)
(* POST /query                                                             *)
(***************************************************************************)
\* raise HTTPException(status_code, detail)
HTTPException(status_code, detail) == [status |-> status_code, detail |-> detail]

\* str(e) of an HTTPException
str(e) ==
  (CASE e.status = 404 -> "404" [] e.status = 500 -> "500" [] OTHER -> "")
    \o ": " \o e.detail

\* "except Exception as e: raise HTTPException(status_code=500, detail=str(e))"
except_exception(e) == HTTPException(500, str(e))

\* query_documents once retrieve has returned results or raised, and
\* llm.generate has answered or raised
query_documents(raised, results, llm_ok) ==
  IF raised THEN HTTPException(500, "retrieve")
  ELSE IF results = <<>>
  THEN except_exception(HTTPException(404, "No relevant documents found"))
  ELSE IF ~llm_ok THEN HTTPException(500, "generate")
  ELSE [status |-> 200, detail |-> ""]

\* the endpoint answers the request whose retrieve call has ended
Respond(llm_ok) ==
  /\ pc \in {"returned", "raised"}
  /\ response = NoResponse
  /\ response' = query_documents(pc = "raised", ret, llm_ok)
  /\ UNCHANGED <<store, ttl, vector_table, deleted, scorer_calls, pc, query, top_k,
                 rerank_top_k, use_cache, cached_results, vector_task, bm25_task,
                 vector_results, bm25_results, fused_results, reranked_results,
                 rerank_scores, ret, log, calls>>
  /\ IndexUnchanged

(***************************************************************************)
(* BM25Store operations called on their own                                *)
(***************************************************************************)
CallUnchanged == UNCHANGED <<store, ttl, vector_table, deleted, scorer_calls, response, pc, rerank_top_k, use_cache, cached_results,
                             best_match_key,
                             vector_task, vector_results, fused_results,
                             reranked_results, rerank_scores, ret, log, calls>>

\* the token lists of docs appended to those of the corpus indexed before
tokenized_docs_appended(earlier, docs) ==
  earlier \o [i \in 1..Len(docs) |-> Tokenize(docs[i].content)]

\* tokenized_docs of build_index: a new list on every call, whatever corpus
\* the store indexed earlier
tokenized_docs(earlier, docs) ==
  [i \in 1..Len(docs) |-> Tokenize(docs[i].content)]

\* BM25Store.build_index(docs), _save_to_redis included; when BM25Okapi
\* raises, self.documents and self.doc_mapping are already written and the
\* index and the snapshot stay as they were
BuildIndex(docs) ==
  /\ CallIdle
  /\ documents' = docs
  /\ doc_mapping' = build_doc_mapping(doc_mapping, docs)
  /\ rebuilt' = (bm25_index # None /\ documents = docs)
  /\ LET tokens == tokenized_docs(IF bm25_index = None THEN <<>> ELSE bm25_index.corpus,
                                   docs)
     IN IF okapi_raises(tokens)
        THEN /\ build_status' = "raised"
             /\ UNCHANGED <<bm25_index, redis_bm25_index, redis_bm25_documents>>
        ELSE /\ build_status' = "done"
             /\ bm25_index' = BM25Okapi(tokens)
             /\ redis_bm25_index' = <<bm25_data(bm25_index')>>
             /\ redis_bm25_documents' = <<doc_mapping'>>
  /\ bm25_task' = "none" /\ bm25_results' = <<>>
  /\ UNCHANGED <<query, top_k, saving, loading>>
  /\ CallUnchanged

\* BM25Store(redis_client): get_bm25_store builds a new store per request
NewStore ==
  /\ CallIdle
  /\ bm25_index # None \/ build_status # "none"
  /\ bm25_index' = None
  /\ documents' = <<>>
  /\ doc_mapping' = <<>>
  /\ build_status' = "none" /\ rebuilt' = FALSE
  /\ bm25_task' = "none" /\ bm25_results' = <<>>
  /\ UNCHANGED <<query, top_k, redis_bm25_index, redis_bm25_documents,
                 saving, loading>>
  /\ CallUnchanged

\* BM25Store.search(q, k) called directly
Search(q, k) ==
  /\ CallIdle
  /\ query' = q /\ top_k' = k
  /\ SearchEffect(q, k)
  /\ CallUnchanged

(***************************************************************************)
(* Specifications                                                          *)
(***************************************************************************)
\* no retrieve call yet
CallInit ==
  /\ pc = "idle" /\ query = <<>> /\ top_k = 0 /\ rerank_top_k = 0
  /\ use_cache = FALSE /\ cached_results = NoCached /\ best_match_key = <<>>
  /\ vector_task = "none" /\ bm25_task = "none"
  /\ vector_results = <<>> /\ bm25_results = <<>> /\ fused_results = <<>>
  /\ reranked_results = <<>> /\ rerank_scores = <<>> /\ scorer_calls = <<>> /\ response = NoResponse /\ ret = <<>>
  /\ log = <<>> /\ calls = 0

\* BM25Store.__init__ with nothing persisted
StoreInit ==
  /\ bm25_index = None /\ documents = <<>> /\ doc_mapping = <<>>
  /\ build_status = "none" /\ rebuilt = FALSE
  /\ saving = NoSave /\ loading = "none"
  /\ vector_table = {} /\ deleted = {}
  /\ redis_bm25_index = Absent /\ redis_bm25_documents = Absent

\* the corpus the retrieve calls of Spec search
SeedDocs == <<Chunk1, Chunk2, Chunk3>>
SeedIndex == BM25Okapi([i \in 1..Len(SeedDocs) |-> Tokenize(SeedDocs[i].content)])
SeedMapping == build_doc_mapping(<<>>, SeedDocs)

\* a new BM25Store with: nothing persisted; the snapshot of a finished
\* build_index(SeedDocs); the snapshot of a build_index(SeedDocs) stopped between
\* the two redis.set calls of _save_to_redis
SeedStores ==
  {[index |-> Absent, docs |-> Absent],
   [index |-> <<bm25_data(SeedIndex)>>, docs |-> <<SeedMapping>>],
   [index |-> <<bm25_data(SeedIndex)>>, docs |-> Absent]}

PipelineTopKs == {MaxVec}
RerankTopKs == {1, MaxVec}

Init ==
  /\ store = <<>> /\ ttl = <<>>
  /\ bm25_index = None /\ documents = <<>> /\ doc_mapping = <<>>
  /\ build_status = "none" /\ rebuilt = FALSE
  /\ saving = NoSave /\ loading = "none"
  /\ vector_table = {} /\ deleted = {}
  /\ \E s \in SeedStores : redis_bm25_index = s.index /\ redis_bm25_documents = s.docs
  /\ CallInit

Next ==
  \/ \E q \in Queries, tk \in PipelineTopKs, rtk \in RerankTopKs, uc \in BOOLEAN :
       Retrieve(q, tk, rtk, uc)
  \/ CacheGet
  \/ CacheGetRaises
  \/ \E rows \in VectorAnswers(top_k) : VectorSearchReturns(rows)
  \/ VectorSearchRaises
  \/ BM25SearchCompletes
  \/ GatherRaises
  \/ GatherReturns
  \/ Fuse
  \/ RerankDispatch
  \/ \E scores \in [1..Len(fused_results) -> RawScores] : RerankComplete(scores)
  \/ RerankRaises
  \/ CacheSet
  \/ CacheSetRaises
  \/ \E key \in DOMAIN store : Expire(key)

Spec == Init /\ [][Next]_vars

\* ---- retrieve called by the POST /query endpoint ----
NextQuery ==
  \/ Next
  \/ \E llm_ok \in BOOLEAN : Respond(llm_ok)

SpecQuery == Init /\ [][NextQuery]_vars

\* ---- reciprocal rank fusion on its own ----
FusionDocs ==
  {<<<<"Cat">>, MetaA>>, <<<<"dog">>, MetaA>>, <<<<"dog">>, MetaB>>,
   <<<<"emu">>, MetaC>>, <<<<"cat", "Dog">>, MetaPlain>>}
VectorLists ==
  SeqsUpTo({SearchResult(d[1], d[2], 90, "vector") : d \in FusionDocs}, MaxLen)
BM25Lists ==
  SeqsUpTo({SearchResult(d[1], d[2], 574, "bm25") : d \in FusionDocs}, MaxLen)

InitFusion ==
  /\ store = <<>> /\ ttl = <<>> /\ StoreInit
  /\ pc = "fuse" /\ query = Query1 /\ top_k = MaxLen /\ rerank_top_k = MaxLen
  /\ use_cache = FALSE /\ cached_results = NoCached /\ best_match_key = <<>>
  /\ vector_task = "done" /\ bm25_task = "done"
  /\ vector_results \in VectorLists /\ bm25_results \in BM25Lists
  /\ fused_results = <<>> /\ reranked_results = <<>> /\ rerank_scores = <<>>
  /\ scorer_calls = <<>> /\ response = NoResponse
  /\ ret = <<>> /\ log = <<>> /\ calls = 1

NextFusion == Fuse

SpecFusion == InitFusion /\ [][NextFusion]_vars

\* ---- Reranker.rerank on its own ----
RerankCandidates ==
  {SearchResult(<<"Cat">>, MetaA, VectorContribution(1) + BM25Contribution(1), "hybrid"),
   SearchResult(<<"dog">>, MetaB, VectorContribution(1), "hybrid"),
   SearchResult(<<"emu">>, MetaC, BM25Contribution(2), "hybrid"),
   SearchResult(<<"cat", "Dog">>, MetaPlain, BM25Contribution(2), "hybrid")}

InitRerank ==
  /\ store = <<>> /\ ttl = <<>> /\ StoreInit
  /\ pc = "rerank" /\ query = Query1 /\ top_k = MaxLen
  /\ rerank_top_k \in 1..MaxLen
  /\ use_cache = FALSE /\ cached_results = NoCached /\ best_match_key = <<>>
  /\ vector_task = "done" /\ bm25_task = "done"
  /\ vector_results = <<>> /\ bm25_results = <<>>
  /\ fused_results \in DistinctSeqsUpTo(RerankCandidates, MaxLen)
  /\ reranked_results = <<>> /\ rerank_scores = <<>> /\ scorer_calls = <<>> /\ response = NoResponse
  /\ ret = <<>> /\ log = <<>> /\ calls = 1

NextRerank ==
  \/ RerankDispatch
  \/ \E scores \in [1..Len(fused_results) -> RawScores] : RerankComplete(scores)

SpecRerank == InitRerank /\ [][NextRerank]_vars

\* ---- SemanticCache.get on its own ----
CacheTexts == {Query1, Query2, Query3, Query4}
CachedLists ==
  {<<>>, <<SearchResult(<<"Cat">>, MetaA, RerankWeight * RRFDen, "reranked")>>}
\* stores that earlier cache.set calls can have left
CacheStores ==
  {[key \in {cache_key(q) : q \in T} |->
      LET q == CHOOSE q \in T : cache_key(q) = key
      IN cache_data(q, get_embedding(q), lists[q])] :
     lists \in [CacheTexts -> CachedLists], T \in SUBSET CacheTexts}

InitCache ==
  /\ store \in CacheStores
  /\ ttl = [key \in DOMAIN store |-> CacheTTL]
  /\ StoreInit
  /\ pc = "cache_check" /\ query \in CacheTexts /\ top_k = MaxVec /\ rerank_top_k = MaxVec
  /\ use_cache = TRUE /\ cached_results = NoCached /\ best_match_key = <<>>
  /\ vector_task = "none" /\ bm25_task = "none"
  /\ vector_results = <<>> /\ bm25_results = <<>> /\ fused_results = <<>>
  /\ reranked_results = <<>> /\ rerank_scores = <<>> /\ scorer_calls = <<>> /\ response = NoResponse
  /\ ret = <<>> /\ log = <<>> /\ calls = 1

NextCache == CacheGet

SpecCache == InitCache /\ [][NextCache]_vars

\* ---- SemanticCache.get over a store that other writers share ----
\* records under the cache prefix that SemanticCache.set did not write: not
\* JSON, JSON without "embedding", JSON without "results"
ForeignRecords ==
  {[raw |-> "{"],
   [query |-> Query4, results |-> <<>>],
   [query |-> Query4, embedding |-> get_embedding(Query4)]}

\* a store of SemanticCache.set entries with one foreign record beside them
SharedStores ==
  {[key \in (DOMAIN base) \cup {cache_key(Query4)} |->
      IF key = cache_key(Query4) THEN bad ELSE base[key]] :
     base \in {b \in CacheStores : cache_key(Query4) \notin DOMAIN b},
     bad \in ForeignRecords}

InitCacheShared ==
  /\ store \in SharedStores
  /\ ttl = [key \in DOMAIN store |-> CacheTTL]
  /\ StoreInit
  /\ pc = "cache_check" /\ query \in CacheTexts \ {Query4}
  /\ top_k = MaxVec /\ rerank_top_k = MaxVec
  /\ use_cache = TRUE /\ cached_results = NoCached /\ best_match_key = <<>>
  /\ vector_task = "none" /\ bm25_task = "none"
  /\ vector_results = <<>> /\ bm25_results = <<>> /\ fused_results = <<>>
  /\ reranked_results = <<>> /\ rerank_scores = <<>> /\ scorer_calls = <<>> /\ response = NoResponse
  /\ ret = <<>> /\ log = <<>> /\ calls = 1

SpecCacheShared == InitCacheShared /\ [][NextCache]_vars

\* ---- SemanticCache.get racing with the expiry of entries ----
\* cache.get up to the await of its last read: the keys are listed and
\* scanned; a miss hands over to the fetch, a match waits for redis.get
CacheScan ==
  /\ pc = "cache_check"
  /\ \E cache_keys \in KeyOrders(store) :
       IF \E i \in 1..Len(cache_keys) : unreadable(store[cache_keys[i]])
       THEN /\ pc' = "raised"
            /\ log' = Append(log, "cache_get")
            /\ UNCHANGED <<best_match_key, cached_results, vector_task, bm25_task>>
       ELSE LET best == scan([max_similarity |-> ZeroSimilarity, best_match_key |-> <<>>],
                             cache_keys, 1, store, get_embedding(query))
            IN IF AtLeastThreshold(best.max_similarity) /\ best.best_match_key # <<>>
               THEN /\ pc' = "cache_read"
                    /\ best_match_key' = best.best_match_key
                    /\ UNCHANGED <<log, cached_results, vector_task, bm25_task>>
               ELSE /\ cached_results' = NoCached
                    /\ StartFetch(Append(log, "cache_get"))
                    /\ UNCHANGED best_match_key
  /\ UNCHANGED <<store, ttl, vector_table, deleted, scorer_calls, response, query, top_k, rerank_top_k, use_cache, vector_results,
                 bm25_results, fused_results, reranked_results, rerank_scores, ret,
                 calls, bm25_index, documents, doc_mapping, redis_bm25_index,
                 redis_bm25_documents, build_status, rebuilt, saving, loading>>

\* redis.get(best_match_key) answers: json.loads of the None of a vanished key
\* raises, an entry is deserialized and returned to retrieve
CacheFinalRead ==
  /\ pc = "cache_read"
  /\ best_match_key' = <<>>
  /\ IF best_match_key[1] \notin DOMAIN store
        \/ "results" \notin DOMAIN store[best_match_key[1]]
     THEN /\ pc' = "raised"
          /\ log' = Append(log, "cache_get")
          /\ UNCHANGED <<cached_results, ret, vector_task, bm25_task>>
     ELSE LET r == [found |-> TRUE,
                    results |-> deserialize(store[best_match_key[1]].results),
                    key |-> best_match_key]
          IN /\ cached_results' = r
             /\ IF truthy(r)
                THEN /\ pc' = "returned" /\ ret' = r.results
                     /\ log' = Append(log, "cache_get")
                     /\ UNCHANGED <<vector_task, bm25_task>>
                ELSE /\ StartFetch(Append(log, "cache_get"))
                     /\ UNCHANGED ret
  /\ UNCHANGED <<store, ttl, vector_table, deleted, scorer_calls, response, query, top_k, rerank_top_k, use_cache, vector_results,
                 bm25_results, fused_results, reranked_results, rerank_scores,
                 calls, bm25_index, documents, doc_mapping, redis_bm25_index,
                 redis_bm25_documents, build_status, rebuilt, saving, loading>>

NextCacheRace ==
  \/ CacheScan
  \/ CacheFinalRead
  \/ \E key \in DOMAIN store : Expire(key)

SpecCacheRace == InitCache /\ [][NextCacheRace]_vars

\* ---- the end of a miss: rerank, then cache.set ----
\* stores of at most one entry, left by another retrieve call
TailStores == {s \in CacheStores : Cardinality(DOMAIN s) <= 1}

InitMissTail ==
  /\ store \in TailStores
  /\ ttl = [key \in DOMAIN store |-> CacheTTL]
  /\ StoreInit
  /\ pc = "rerank" /\ query \in CacheTexts /\ top_k = MaxVec
  /\ rerank_top_k \in RerankTopKs
  /\ use_cache = TRUE /\ cached_results = NoCached /\ best_match_key = <<>>
  /\ vector_task = "done" /\ bm25_task = "done"
  /\ vector_results = <<>> /\ bm25_results = <<>>
  /\ fused_results \in DistinctSeqsUpTo(RerankCandidates, MaxVec)
  /\ reranked_results = <<>> /\ rerank_scores = <<>> /\ scorer_calls = <<>> /\ response = NoResponse
  /\ ret = <<>> /\ log = <<"cache_get">> /\ calls = 1

NextMissTail ==
  \/ RerankDispatch
  \/ \E scores \in [1..Len(fused_results) -> RawScores] : RerankComplete(scores)
  \/ RerankRaises
  \/ CacheSet
  \/ CacheSetRaises

SpecMissTail == InitMissTail /\ [][NextMissTail]_vars

\* ---- BM25Store on its own ----
SearchQueries == {Query1, Query2, Query3, <<"cat", "emu", "emu">>}

InitBM25 == store = <<>> /\ ttl = <<>> /\ StoreInit /\ CallInit

NextBM25 ==
  \/ \E docs \in BuildInputs : BuildIndex(docs)
  \/ NewStore
  \/ \E q \in SearchQueries, k \in 1..MaxDocs : Search(q, k)

SpecBM25 == InitBM25 /\ [][NextBM25]_vars

\* ---- DocumentIndexer.delete_document over an indexed corpus ----
\* delete_document(document_id): the rows of the document leave the vector
\* store and the status "deleted" is returned; the BM25 store is not touched.
\* When the vector store raises, the call raises and nothing has changed.
DeleteDocument(document_id) ==
  /\ CallIdle
  /\ vector_table' = {row \in vector_table : row.document_id # document_id}
  /\ deleted' = deleted \cup {document_id}
  /\ UNCHANGED <<store, ttl, scorer_calls, response, pc, query, top_k, rerank_top_k, use_cache,
                 cached_results, vector_task, bm25_task, vector_results, bm25_results,
                 fused_results, reranked_results, rerank_scores, ret, log, calls>>
  /\ IndexUnchanged

DocumentIds == {c.document_id : c \in Chunks}

\* both stores hold the chunks of one build_index(docs), memory and snapshot
InitDelete ==
  /\ store = <<>> /\ ttl = <<>>
  /\ \E docs \in BuildInputs \ {<<>>} :
       /\ documents = docs
       /\ doc_mapping = build_doc_mapping(<<>>, docs)
       /\ bm25_index = BM25Okapi(tokenized_docs(<<>>, docs))
       /\ redis_bm25_index = <<bm25_data(bm25_index)>>
       /\ redis_bm25_documents = <<doc_mapping>>
       /\ vector_table = Range(docs)
  /\ build_status = "done" /\ rebuilt = FALSE
  /\ saving = NoSave /\ loading = "none"
  /\ deleted = {}
  /\ CallInit

NextDelete ==
  \/ \E d \in DocumentIds : DeleteDocument(d)
  \/ NewStore
  \/ \E q \in SearchQueries, k \in 1..MaxDocs : Search(q, k)

SpecDelete == InitDelete /\ [][NextDelete]_vars

\* ---- a build_index call racing with searches of other BM25Store objects ----
\* build_index up to its first suspension, the await of redis.set("bm25_index"):
\* the in-memory fields are written and bm25_data is pickled
BuildBegin(docs) ==
  /\ CallIdle
  /\ saving.stage = "none"
  /\ documents' = docs
  /\ doc_mapping' = build_doc_mapping(doc_mapping, docs)
  /\ rebuilt' = (bm25_index # None /\ documents = docs)
  /\ LET tokens == tokenized_docs(IF bm25_index = None THEN <<>> ELSE bm25_index.corpus,
                                   docs)
     IN IF okapi_raises(tokens)
        THEN /\ build_status' = "raised"
             /\ UNCHANGED <<bm25_index, saving>>
        ELSE /\ build_status' = "saving"
             /\ bm25_index' = BM25Okapi(tokens)
             /\ saving' = [stage |-> "index", data |-> <<bm25_data(bm25_index')>>,
                           mapping |-> doc_mapping']
  /\ bm25_task' = "none" /\ bm25_results' = <<>>
  /\ UNCHANGED <<query, top_k, redis_bm25_index, redis_bm25_documents, loading>>
  /\ CallUnchanged

\* redis applies the first set of _save_to_redis
SaveIndex ==
  /\ saving.stage = "index"
  /\ redis_bm25_index' = saving.data
  /\ saving' = [saving EXCEPT !.stage = "documents"]
  /\ UNCHANGED <<bm25_index, documents, doc_mapping, redis_bm25_documents,
                 build_status, rebuilt, loading, query, top_k, bm25_task, bm25_results>>
  /\ CallUnchanged

\* redis applies the second set of _save_to_redis and build_index returns
SaveDocuments ==
  /\ saving.stage = "documents"
  /\ redis_bm25_documents' = <<saving.mapping>>
  /\ saving' = NoSave
  /\ build_status' = IF build_status = "saving" THEN "done" ELSE build_status
  /\ UNCHANGED <<bm25_index, documents, doc_mapping, redis_bm25_index,
                 rebuilt, loading, query, top_k, bm25_task, bm25_results>>
  /\ CallUnchanged

\* search(q, k) on a store that holds an index: no suspension
SearchInMemory(q, k) ==
  /\ bm25_index # None
  /\ Search(q, k)

\* search(q, k) on a store without an index, up to the second await of
\* _load_from_redis: the "bm25_index" key is read and restored
LoadIndex(q, k) ==
  /\ CallIdle
  /\ bm25_index = None
  /\ query' = q /\ top_k' = k
  /\ bm25_index' = load_from_redis(bm25_index, doc_mapping,
                                    redis_bm25_index, Absent).bm25_index
  /\ loading' = "documents"
  /\ bm25_task' = "running" /\ bm25_results' = <<>>
  /\ UNCHANGED <<documents, doc_mapping, redis_bm25_index, redis_bm25_documents,
                 build_status, rebuilt, saving>>
  /\ CallUnchanged

\* the "bm25_documents" key is read, _load_from_redis returns and the search
\* runs to its end
LoadDocuments ==
  /\ loading = "documents"
  /\ loading' = "none"
  /\ doc_mapping' = load_from_redis(bm25_index, doc_mapping,
                                    Absent, redis_bm25_documents).doc_mapping
  /\ IF bm25_index = None
     THEN bm25_results' = <<>> /\ bm25_task' = "done"
     ELSE LET r == search_index(bm25_index, doc_mapping', query, top_k)
          IN IF r.raised
             THEN bm25_results' = <<>> /\ bm25_task' = "failed"
             ELSE bm25_results' = r.results /\ bm25_task' = "done"
  /\ UNCHANGED <<bm25_index, documents, redis_bm25_index, redis_bm25_documents,
                 build_status, rebuilt, saving, query, top_k>>
  /\ CallUnchanged

\* document lists of the racing builds
RaceBuilds == {<<Chunk1, Chunk2, Chunk3>>, <<Chunk3, Chunk2, Chunk1>>, <<Chunk2>>}
RaceQueries == {Query1, Query3}

NextRace ==
  \/ \E docs \in RaceBuilds : BuildBegin(docs)
  \/ SaveIndex
  \/ SaveDocuments
  \/ NewStore
  \/ \E q \in RaceQueries : SearchInMemory(q, MaxDocs)
  \/ \E q \in RaceQueries : LoadIndex(q, MaxDocs)
  \/ LoadDocuments

SpecRace == InitBM25 /\ [][NextRace]_vars

(***************************************************************************)
(* Claims                                                                  *)
(***************************************************************************)
\* position of the first occurrence of an event in log, 0 when absent
Pos(e) ==
  IF \E i \in 1..Len(log) : log[i] = e
  THEN CHOOSE i \in 1..Len(log) : log[i] = e /\ \A j \in 1..(i - 1) : log[j] # e
  ELSE 0

Logged(e) == Pos(e) > 0

\* e1 was logged, and before e2
Before(e1, e2) == Logged(e1) /\ Pos(e1) < Pos(e2)

\* C1: when cache.get of a use_cache retrieve call found an entry at or above
\* the threshold, retrieve returns that entry's results and the call makes no
\* other call than cache.get: no vector or BM25 search, no fusion, no rerank,
\* no cache write.
C1_HitBypassesPipeline ==
  (use_cache /\ cached_results.found) =>
     /\ pc = "returned"
     /\ ret = cached_results.results
     /\ log = <<"cache_get">>

\* C2: once the vector search or the BM25 search of a retrieve call has raised,
\* the call can only raise: it returns nothing, runs neither fusion nor rerank
\* and writes nothing to the cache store.
C2_FetchFailureAborts ==
  (vector_task = "failed" \/ bm25_task = "failed") =>
     /\ pc \in {"gather", "raised"}
     /\ ret = <<>>
     /\ fused_results = <<>> /\ reranked_results = <<>>
     /\ ~Logged("fuse") /\ ~Logged("rerank") /\ ~Logged("cache_set")
     /\ (pc = "gather" => gather_outcome(vector_task, bm25_task) = "raise")

\* the vector results were in hand when the BM25 search raised, and retrieve
\* raised all the same
C2_Witness ==
  /\ pc = "raised" /\ bm25_task = "failed"
  /\ vector_task = "done" /\ vector_results # <<>>

\* C4: on the miss path both searches are issued before either completes,
\* fusion runs only after both searches are done, rerank only after fusion, and
\* the cache write only after rerank has returned.
C4_StageOrder ==
  /\ \A e \in {"vector_done", "vector_raise", "bm25_done", "bm25_raise"} :
       Logged(e) => Before("vector_search", e) /\ Before("bm25_search", e)
  /\ Logged("fuse") => Before("vector_done", "fuse") /\ Before("bm25_done", "fuse")
  /\ pc = "fuse" => vector_task = "done" /\ bm25_task = "done"
  /\ Logged("rerank") => Before("fuse", "rerank")
  /\ Logged("cache_set") => Before("rerank_done", "cache_set")
  /\ pc = "cache_write" => Logged("rerank_done")

\* a whole miss-path call in which the BM25 search finished while the vector
\* search was still running
C4_Witness ==
  /\ pc = "returned"
  /\ log = <<"cache_get", "vector_search", "bm25_search", "bm25_done", "vector_done",
             "fuse", "rerank", "score_pairs", "rerank_done", "cache_set">>

\* a step that only removes entries from the cache store
OnlyExpiry == /\ pc' = pc /\ log' = log
              /\ DOMAIN store' \subseteq DOMAIN store
              /\ \A k \in DOMAIN store' : store'[k] = store[k]

\* C10: a retrieve call with use_cache = false never calls cache.get or
\* cache.set, and no step of it changes the cache store (entries may only
\* expire meanwhile).
C10_NoCacheTraffic ==
  [][(use_cache' = FALSE /\ pc' # "idle") =>
       /\ pc' \notin {"cache_check", "cache_write"}
       /\ ~\E i \in 1..Len(log') : log'[i] \in {"cache_get", "cache_set"}
       /\ (store' = store \/ OnlyExpiry)]_vars

\* a use_cache = false call that ran the whole pipeline beside a filled store
C10_Witness ==
  /\ pc = "returned" /\ use_cache = FALSE /\ Logged("rerank_done")
  /\ ret # <<>> /\ DOMAIN store # {}

\* cosine similarity of the query to a stored embedding, at least num / den
CosineAtLeast(q, e, num, den) ==
  Dot(q, e) > 0 /\ den * den * Dot(q, e) * Dot(q, e) >= num * num * NormSq(q) * NormSq(e)

\* cosine similarity of e1 to q strictly above that of e2 (both positive)
CosineAbove(q, e1, e2) ==
  Dot(q, e1) * Dot(q, e1) * NormSq(e2) > Dot(q, e2) * Dot(q, e2) * NormSq(e1)

\* the entries at or above the threshold
Hits == {k \in DOMAIN store :
           CosineAtLeast(get_embedding(query), store[k].embedding,
                         ThresholdNum, ThresholdDen)}

CompositeKey(r) ==
  (IF "document_id" \in DOMAIN r.metadata THEN r.metadata["document_id"] ELSE "")
    \o "_" \o
  (IF "chunk_id" \in DOMAIN r.metadata THEN r.metadata["chunk_id"] ELSE "")

InputResults == Range(vector_results) \cup Range(bm25_results)

\* C5: the fused list holds every composite key of either input list exactly
\* once, each entry being one of the input documents of that key with source
\* "hybrid"; results of one key with different content make one entry.
C5_OneEntryPerKey ==
  pc = "rerank" =>
     /\ {CompositeKey(fused_results[i]) : i \in 1..Len(fused_results)}
          = {CompositeKey(r) : r \in InputResults}
     /\ Len(fused_results) = Cardinality({CompositeKey(r) : r \in InputResults})
     /\ \A i \in 1..Len(fused_results) :
          /\ fused_results[i].source = "hybrid"
          /\ \E r \in InputResults :
               /\ CompositeKey(r) = CompositeKey(fused_results[i])
               /\ r.content = fused_results[i].content
               /\ r.metadata = fused_results[i].metadata

\* one key carried by two different contents, fused into one entry
C5_Witness ==
  /\ pc = "rerank" /\ Len(fused_results) = 1
  /\ \E i \in 1..Len(vector_results), j \in 1..Len(bm25_results) :
       /\ CompositeKey(vector_results[i]) = CompositeKey(bm25_results[j])
       /\ vector_results[i].content # bm25_results[j].content

\* the sum of contribution(r) over the ranks r at which key occurs in results
RankSum(results, key, numerator) ==
  SumSeq([r \in 1..Len(results) |->
            IF CompositeKey(results[r]) = key
            THEN (numerator * RRFDen) \div (AlphaDen * (RRF_K + r)) ELSE 0])

\* C6: the fused score of a key is the sum of alpha / (k + r) over every vector
\* result of that key at rank r plus the sum of (1 - alpha) / (k + r) over every
\* BM25 result of that key at rank r.
C6_ScoreIsSumOfContributions ==
  pc = "rerank" =>
     \A i \in 1..Len(fused_results) :
        fused_results[i].score =
           RankSum(vector_results, CompositeKey(fused_results[i]), AlphaNum)
           + RankSum(bm25_results, CompositeKey(fused_results[i]), AlphaDen - AlphaNum)

\* C7: the fused list is non-increasing by score, and vector ranking [A, B]
\* with BM25 ranking [B, C] comes back as B, A, C.
C7_SortedByFusedScore ==
  pc = "rerank" =>
     /\ \A i \in 1..(Len(fused_results) - 1) :
          fused_results[i].score >= fused_results[i + 1].score
     /\ (/\ vector_results = <<SearchResult(<<"Cat">>, MetaA, 90, "vector"),
                               SearchResult(<<"dog">>, MetaB, 90, "vector")>>
         /\ bm25_results = <<SearchResult(<<"dog">>, MetaB, 574, "bm25"),
                             SearchResult(<<"emu">>, MetaC, 574, "bm25")>>)
        => [i \in 1..Len(fused_results) |-> fused_results[i].metadata]
             = <<MetaB, MetaA, MetaC>>

\* the example: A only in the vector list, C only in the BM25 list, B in both
C7_Witness ==
  /\ pc = "rerank"
  /\ [i \in 1..Len(vector_results) |-> vector_results[i].metadata] = <<MetaA, MetaB>>
  /\ [i \in 1..Len(bm25_results) |-> bm25_results[i].metadata] = <<MetaB, MetaC>>
  /\ Len(fused_results) = 3
  /\ fused_results[1].score > fused_results[2].score
  /\ fused_results[2].score > fused_results[3].score

\* 0.7 * raw + 0.3 * prior of candidate i, in tenths
FinalScore(i) == RerankWeight * rerank_scores[i] + PriorWeight * fused_results[i].score

\* C8: rerank returns min(top_k, n) entries, each a different candidate with
\* score 0.7 * raw + 0.3 * prior and source "reranked", non-increasing by that
\* score, and no candidate left out scores higher than a returned one.
C8_RerankTopK ==
  (pc = "returned" /\ fused_results # <<>>) =>
     LET n == Len(fused_results)
         m == Len(reranked_results)
     IN /\ m = (IF rerank_top_k < n THEN rerank_top_k ELSE n)
        /\ ret = reranked_results
        /\ \A i \in 1..(m - 1) : reranked_results[i].score >= reranked_results[i + 1].score
        /\ \E f \in [1..m -> 1..n] :
             /\ \A a, b \in 1..m : a # b => f[a] # f[b]
             /\ \A a \in 1..m :
                  reranked_results[a] =
                     [content |-> fused_results[f[a]].content,
                      metadata |-> fused_results[f[a]].metadata,
                      score |-> FinalScore(f[a]),
                      source |-> "reranked"]
             /\ \A j \in 1..n : (\A a \in 1..m : f[a] # j) =>
                  \A a \in 1..m : FinalScore(j) <= reranked_results[a].score

\* three candidates cut to one, and the one kept was not the first on entry
C8_Witness ==
  /\ pc = "returned" /\ Len(fused_results) = 3 /\ rerank_top_k = 1
  /\ Len(ret) = 1 /\ ret[1].content # fused_results[1].content
  /\ ret[1].source = "reranked"

\* documents of the index scoring above zero that rank before document i
Ahead(scores, i) ==
  {j \in DOMAIN scores :
     scores[j] > 0 /\ (scores[j] > scores[i] \/ (scores[j] = scores[i] /\ j < i))}

\* C9: BM25Store.search returns the documents scoring above zero that are among
\* the top_k by score, highest first and equal scores by ascending document
\* index; no document scoring zero is returned, so the list can be shorter
\* than top_k.
C9_SearchTopKPositive ==
  (bm25_task = "done" /\ bm25_index # None) =>
     LET scores == get_scores(bm25_index, Tokenize(query))
         Top == {i \in DOMAIN scores :
                   scores[i] > 0 /\ Cardinality(Ahead(scores, i)) < top_k}
     IN /\ Len(bm25_results) = Cardinality(Top)
        /\ \A i \in Top :
             bm25_results[Cardinality(Ahead(scores, i)) + 1] =
                [content |-> doc_mapping[i].content,
                 metadata |-> doc_mapping[i].metadata,
                 score |-> scores[i], source |-> "bm25"]

\* two documents tie above zero, the third scores zero, and top_k = 3 returns
\* the two in index order
C9_Witness ==
  /\ bm25_task = "done" /\ bm25_index # None /\ bm25_index.corpus_size = 3
  /\ top_k = 3 /\ Len(bm25_results) = 2
  /\ bm25_results[1].score = bm25_results[2].score
  /\ bm25_results[1].content = doc_mapping[0].content
  /\ bm25_results[2].content = doc_mapping[1].content

\* C11: a persisted snapshot that holds the term statistics without the
\* document mapping counts as no index: the search that loads it returns an
\* empty list, raises nothing and leaves the in-memory index empty.
C11_PartialSnapshotIsNoIndex ==
  (/\ redis_bm25_index # Absent /\ redis_bm25_documents = Absent
   /\ bm25_task \in {"done", "failed"}) =>
     /\ bm25_task = "done"
     /\ bm25_results = <<>>
     /\ bm25_index = None

\* C12: a search on a store without an in-memory index tries the persisted
\* snapshot once: with no snapshot it returns an empty list without raising
\* and the store stays without index; with a snapshot the store holds the
\* restored index afterwards and the search is answered from it.
C12_LazyLoadOnSearch ==
  [][(bm25_index = None /\ bm25_task' # "none") =>
       IF redis_bm25_index = Absent
       THEN bm25_task' = "done" /\ bm25_results' = <<>> /\ bm25_index' = None
       ELSE /\ bm25_index' = restored_index(redis_bm25_index[1])
            /\ redis_bm25_documents # Absent => doc_mapping' = redis_bm25_documents[1]
            /\ bm25_task' = "done"
            /\ bm25_results' =
                 search_index(bm25_index', doc_mapping', query', top_k').results]_vars

\* a store that never built an index answers a search with documents
C12_Witness ==
  /\ build_status = "none" /\ redis_bm25_index # Absent
  /\ bm25_index # None /\ bm25_task = "done" /\ bm25_results # <<>>

\* C13: once build_index has completed on a store, the snapshot in redis
\* answers every search as that store does (same documents, scores and order),
\* and a new store that loaded the snapshot returns what the snapshot answers.
C13_SnapshotRoundTrip ==
  /\ build_status = "done" =>
       /\ redis_bm25_index # Absent /\ redis_bm25_documents # Absent
       /\ \A q \in SearchQueries, k \in 1..MaxDocs :
            search_index(restored_index(redis_bm25_index[1]),
                         redis_bm25_documents[1], q, k)
              = search_index(bm25_index, doc_mapping, q, k)
  /\ (build_status = "none" /\ bm25_index # None /\ bm25_task = "done") =>
       bm25_results = search_index(restored_index(redis_bm25_index[1]),
                                   redis_bm25_documents[1], query, top_k).results

\* a new store, its index loaded from the snapshot, returns two documents
\* with different scores
C13_Witness ==
  /\ build_status = "none" /\ bm25_index # None /\ bm25_task = "done"
  /\ Len(bm25_results) = 2 /\ bm25_results[1].score > bm25_results[2].score

\* a record SemanticCache.set could have written
WellFormed(data) == {"embedding", "results"} \subseteq DOMAIN data

\* C14: a stored record that is unreadable or lacks a field is skipped by the
\* scan of SemanticCache.get: get does not raise, and a well-formed entry at or
\* above the threshold is still returned.
C14_MalformedRecordSkipped ==
  pc # "cache_check" =>
     /\ pc # "raised"
     /\ (\E k \in DOMAIN store :
           /\ WellFormed(store[k])
           /\ CosineAtLeast(get_embedding(query), store[k].embedding,
                            ThresholdNum, ThresholdDen))
        => cached_results.found

\* C15: build_index with zero documents does not raise, and a search on the
\* store afterwards returns an empty list without raising.
C15_EmptyBuildThenSearch ==
  (build_status # "none" /\ documents = <<>>) =>
     /\ build_status = "done"
     /\ bm25_task # "none" => (bm25_task = "done" /\ bm25_results = <<>>)

C18_ScoreMonotoneInFrequency ==
  bm25_index # None =>
     \A w \in DOMAIN bm25_index.idf, i \in 1..bm25_index.corpus_size :
        \A f \in 0..(bm25_index.doc_len[i] - 1) :
           term_score(bm25_index.idf[w], f + 1, bm25_index.doc_len[i],
                      bm25_index.total_len, bm25_index.corpus_size)
             >= term_score(bm25_index.idf[w], f, bm25_index.doc_len[i],
                           bm25_index.total_len, bm25_index.corpus_size)

\* the chunk, as it was handed to the stores, that a fetched result shows
IndexedChunk(r) ==
  CHOOSE c \in Chunks : c.content = r.content /\ c.metadata = r.metadata

\* the document_id and chunk_id supplied when the chunk of r was indexed
ChunkIdentity(r) == <<IndexedChunk(r).document_id, IndexedChunk(r).chunk_id>>

\* C19: fusion merges fetched results only when they are results of the same
\* chunk (the document_id and chunk_id it was indexed with): the fused list
\* has as many entries as there are distinct chunks among the fetched results.
C19_FusionMergesOnlySameChunk ==
  pc = "rerank" =>
     Len(fused_results) = Cardinality({ChunkIdentity(r) : r \in InputResults})

\* the document mapping resolves every position of the index's corpus to the
\* document that was tokenized into that position
OneBuild(index, mapping) ==
  \A i \in 1..index.corpus_size :
     /\ (i - 1) \in DOMAIN mapping
     /\ Tokenize(mapping[i - 1].content) = index.corpus[i]

\* C21: a search that has run, also one that loaded the snapshot while a
\* build_index call was saving it, used term statistics and a document mapping
\* of one build: it did not fail on an index without a document, and every
\* index position resolves to that build's document.
C21_SearchSeesOneBuild ==
  (bm25_task \in {"done", "failed"} /\ bm25_index # None) =>
     /\ bm25_task = "done"
     /\ OneBuild(bm25_index, doc_mapping)

\* C22: a stored cache entry is never changed: in every step, an entry that is
\* in the store before and after the step has the same query text, embedding
\* and results; an entry changes only by leaving the store.
C22_EntriesNeverMutated ==
  [][\A key \in DOMAIN store : key \in DOMAIN store' => store'[key] = store[key]]_vars

\* C23: SemanticCache.get over a store of well-formed entries that expire at
\* any moment of the call never raises: when the best match is gone at the
\* last read, get reports a miss or a hit, not an exception.
C23_GetSurvivesExpiry == pc # "raised"

\* C24: a use_cache retrieve call whose query text has an entry in the store,
\* written by the earlier call with that text and still there, returns the
\* entry's result list as it was stored and makes no call but cache.get: no
\* vector search, no BM25 search, no rerank.
C24_RepeatedQueryServedFromCache ==
  (/\ calls = 2 /\ use_cache /\ pc \notin {"cache_check", "raised"}
   /\ ~Logged("cache_set")
   /\ cache_key(query) \in DOMAIN store)
    => /\ pc = "returned"
       /\ ret = deserialize(store[cache_key(query)].results)
       /\ log = <<"cache_get">>

\* C25: the cache.set step of a use_cache retrieve call after a rerank leaves
\* exactly one entry for the query text, under the key of the text, holding
\* the text, its embedding and the results the call returns, stored with the
\* configured time-to-live; the entries of all other texts, also of texts
\* with the same embedding, stay as they were.
C25_MissStoresOneEntry ==
  [][(pc = "cache_write" /\ pc' = "returned") =>
       /\ \A key \in DOMAIN store :
            store[key].query # query =>
               /\ key \in DOMAIN store'
               /\ store'[key] = store[key]
               /\ ttl'[key] = ttl[key]
       /\ Cardinality(DOMAIN store')
            = Cardinality({key \in DOMAIN store : store[key].query # query}) + 1
       /\ \E key \in DOMAIN store' :
            /\ key = cache_key(query)
            /\ store'[key].query = query
            /\ store'[key].embedding = get_embedding(query)
            /\ deserialize(store'[key].results) = ret'
            /\ ret' = reranked_results
            /\ ttl'[key] = CacheTTL]_vars

\* cache.set has stored a non-empty result list beside the entry of another
\* text with the same embedding
C25_Witness ==
  /\ pc = "returned" /\ Logged("cache_set") /\ ret # <<>>
  /\ cache_key(query) \in DOMAIN store
  /\ \E other \in DOMAIN store :
       /\ store[other].query # query
       /\ store[other].embedding = store[cache_key(query)].embedding

\* C26: a retrieve call that returns, from the pipeline or from the cache,
\* returns at most rerank_top_k results.
C26_AtMostRerankTopK ==
  pc = "returned" => Len(ret) <= rerank_top_k

\* C27: after a build_index call that completed, the document mapping in
\* memory and the one in the snapshot have exactly the keys 0..N-1 of the N
\* documents of that build, each mapped to the document at that position.
C27_MappingIsLastBuild ==
  build_status = "done" =>
     /\ DOMAIN doc_mapping = 0..(Len(documents) - 1)
     /\ \A i \in 0..(Len(documents) - 1) :
          /\ doc_mapping[i].content = documents[i + 1].content
          /\ doc_mapping[i].document_id = documents[i + 1].document_id
          /\ doc_mapping[i].chunk_id = documents[i + 1].chunk_id
     /\ redis_bm25_documents = <<doc_mapping>>

\* C28: once delete_document(d) has returned "deleted", no chunk of d is in
\* the vector store, in the lexical index (in memory or in its snapshot), or
\* among the results of a lexical search.
C28_DeletedDocumentIsGone ==
  \A d \in deleted :
     /\ \A row \in vector_table : row.document_id # d
     /\ bm25_index # None =>
          \A i \in 0..(bm25_index.corpus_size - 1) :
             i \in DOMAIN doc_mapping => doc_mapping[i].document_id # d
     /\ redis_bm25_documents # Absent =>
          \A i \in DOMAIN redis_bm25_documents[1] :
             redis_bm25_documents[1][i].document_id # d
     /\ \A i \in 1..Len(bm25_results) : IndexedChunk(bm25_results[i]).document_id # d

\* C29: once rerank has been called, the pairwise scorer has been invoked
\* exactly once, with the pair (query, content) of every candidate in input
\* order, when there are candidates; with no candidate it has not been
\* invoked and rerank has returned the empty list at once.
C29_ScorerInvokedOnce ==
  (pc # "rerank" /\ Logged("rerank")) =>
     IF fused_results = <<>>
     THEN /\ scorer_calls = <<>> /\ response = NoResponse
          /\ reranked_results = <<>>
          /\ Pos("rerank_done") = Pos("rerank") + 1
     ELSE /\ Len(scorer_calls) = 1
          /\ Len(scorer_calls[1]) = Len(fused_results)
          /\ \A i \in 1..Len(fused_results) :
               scorer_calls[1][i] = <<query, fused_results[i].content>>

\* rerank has returned the scored candidates of a list of MaxLen
C29_Witness ==
  /\ pc = "returned" /\ Logged("rerank_done")
  /\ Len(fused_results) = MaxLen /\ Len(scorer_calls) = 1
  /\ Len(rerank_scores) = MaxLen

\* C30: when retrieve has returned the empty list, POST /query answers with
\* status 404 and detail "No relevant documents found", not with a 500.
C30_EmptyResultIs404 ==
  (response # NoResponse /\ pc = "returned" /\ ret = <<>>) =>
     /\ response.status = 404
     /\ response.detail = "No relevant documents found"

====
